---- MODULE Spec2Model ----
(***************************************************************************)
(* A model of jpgfromraw: the IFD scanner and JPEG assembler of            *)
(* src/src/parser/mod.rs working on byte buffers, and the bounded          *)
(* concurrency scheduler of src/src/main.rs.                               *)
(*                                                                         *)
(* A buffer is a sequence of bytes (0..255); Rust's 0-based index i is     *)
(* element i+1 here.  usize is 64 bits wide: every u32 read from a buffer  *)
(* converts (try_into) without error and no sum of the sizes below wraps.  *)
(***************************************************************************)
EXTENDS Integers, Sequences, FiniteSets, TLC

(***************************************************************************)
(* Option<T>: None is the empty sequence, Some(v) the one-element one.     *)
(***************************************************************************)
None == <<>>
Some(v) == <<v>>

(***************************************************************************)
(* Results.  kind is "ok", "err" (an anyhow error, msg its text) or        *)
(* "panic" (a slice index out of range: the thread unwinds).               *)
(***************************************************************************)
Ok(v) == [kind |-> "ok", val |-> v, msg |-> ""]
Err(m, v) == [kind |-> "err", val |-> v, msg |-> m]
Panic(m, v) == [kind |-> "panic", val |-> v, msg |-> m]

(***************************************************************************)
(* Slices: &buf[a..b] panics unless a <= b <= len.                         *)
(***************************************************************************)
SliceOk(buf, a, b) == a <= b /\ b <= Len(buf)
Slice(buf, a, b) == SubSeq(buf, a + 1, b)
SliceFrom(buf, a) == SubSeq(buf, a + 1, Len(buf))

(***************************************************************************)
(* byteorder's readers over a slice holding at least 2 (4) bytes.          *)
(***************************************************************************)
LittleEndian_read_u16(b) == b[1] + 256 * b[2]
BigEndian_read_u16(b) == 256 * b[1] + b[2]
LittleEndian_read_u32(b) == b[1] + 256 * b[2] + 65536 * b[3] + 16777216 * b[4]
BigEndian_read_u32(b) == 16777216 * b[1] + 65536 * b[2] + 256 * b[3] + b[4]
\* A reader that ignores the byte order the header announced.
read_u32_big_endian(is_le, b) == BigEndian_read_u32(b)
read_u16(is_le, b) == IF is_le THEN LittleEndian_read_u16(b) ELSE BigEndian_read_u16(b)
read_u32(is_le, b) == IF is_le THEN LittleEndian_read_u32(b) ELSE BigEndian_read_u32(b)

(***************************************************************************)
(* The constants of the parser.                                            *)
(***************************************************************************)
TIFF_HEADER == <<73, 73, 42, 0>>
EXIF_HEADER == <<69, 120, 105, 102, 0, 0>>
EXIF_HEADER_SIZE == 6
IFD_ENTRY_SIZE == 12
TIFF_MAGIC_LE == <<73, 73, 42, 0>>
TIFF_MAGIC_BE == <<77, 77, 0, 42>>
JPEG_TAG == 513
JPEG_LENGTH_TAG == 514
ORIENTATION_TAG == 274

EmbeddedJpegInfo(o, l, r) == [offset |-> o, length |-> l, orientation |-> r]
EmbeddedJpegInfo_default == EmbeddedJpegInfo(0, 0, None)

(***************************************************************************)
(* memmem::find_iter(haystack, needle).next(): the first position at which *)
(* the needle occurs, or None.                                             *)
(***************************************************************************)
memmem_find(haystack, needle) ==
    LET hits == {p \in 0..(Len(haystack) - Len(needle)) :
                    Slice(haystack, p, p + Len(needle)) = needle}
    IN  IF hits = {} THEN None
        ELSE Some(CHOOSE p \in hits : \A q \in hits : p <= q)

(***************************************************************************)
(* find_tiff_header_offset: &raw_buf[0..4] is taken before any length      *)
(* check, so a buffer shorter than 4 bytes panics.                         *)
(***************************************************************************)
find_tiff_header_offset(raw_buf) ==
    IF ~SliceOk(raw_buf, 0, 4)
    THEN Panic("range end index 4 out of range for slice", 0)
    ELSE IF Slice(raw_buf, 0, 4) = TIFF_HEADER
    THEN Ok(0)
    ELSE LET found == memmem_find(raw_buf, EXIF_HEADER)
         IN  IF found # None
             THEN Ok(found[1] + EXIF_HEADER_SIZE)
             ELSE Err("No Exif APP1 segment with TIFF header found", 0)

(***************************************************************************)
(* The selection policy applied to one candidate (lines 126-146).          *)
(***************************************************************************)
\* (select_jpeg as it would be with >= for >: a later candidate of the same
\* length replaces the best.)
select_jpeg_keeps_last(find_type, largest_jpeg, offset, length, cur_orientation) ==
    IF find_type = "Smallest"
    THEN IF length < largest_jpeg.length \/ largest_jpeg.length = 0
         THEN EmbeddedJpegInfo(offset, length, cur_orientation)
         ELSE largest_jpeg
    ELSE IF length >= largest_jpeg.length
         THEN EmbeddedJpegInfo(offset, length, cur_orientation)
         ELSE largest_jpeg

\* A selection whose two policies are exchanged.
select_jpeg_policies_swapped(find_type, largest_jpeg, offset, length, cur_orientation) ==
    IF find_type = "Largest"
    THEN IF length < largest_jpeg.length \/ largest_jpeg.length = 0
         THEN EmbeddedJpegInfo(offset, length, cur_orientation)
         ELSE largest_jpeg
    ELSE IF length > largest_jpeg.length
         THEN EmbeddedJpegInfo(offset, length, cur_orientation)
         ELSE largest_jpeg

select_jpeg(find_type, largest_jpeg, offset, length, cur_orientation) ==
    IF find_type = "Smallest"
    THEN IF length < largest_jpeg.length \/ largest_jpeg.length = 0
         THEN EmbeddedJpegInfo(offset, length, cur_orientation)
         ELSE largest_jpeg
    ELSE IF length > largest_jpeg.length
         THEN EmbeddedJpegInfo(offset, length, cur_orientation)
         ELSE largest_jpeg

(***************************************************************************)
(* The entry loop of one IFD (lines 109-149): entries i, i+1, ... of       *)
(* entries_cursor.chunks_exact(12).take(num_entries).  cur holds           *)
(* cur_offset, cur_length and cur_orientation; the loop breaks at the      *)
(* entry that completes the pointer/length pair.                           *)
(***************************************************************************)
\* An entry loop without the break: it reads every entry of the IFD and
\* selects at the end.
RECURSIVE scan_entries_to_the_end(_, _, _, _, _, _, _)
scan_entries_to_the_end(entries_cursor, is_le, find_type, num_entries, i, cur, largest_jpeg) ==
    IF i >= num_entries \/ (i + 1) * IFD_ENTRY_SIZE > Len(entries_cursor)
    THEN IF cur.offset # None /\ cur.length # None
         THEN select_jpeg(find_type, largest_jpeg, cur.offset[1], cur.length[1],
                          cur.orientation)
         ELSE largest_jpeg
    ELSE LET entry == Slice(entries_cursor, i * IFD_ENTRY_SIZE, (i + 1) * IFD_ENTRY_SIZE)
             tag == read_u16(is_le, Slice(entry, 0, 2))
             nxt == [offset |-> IF tag = JPEG_TAG
                                THEN Some(read_u32(is_le, Slice(entry, 8, 12)))
                                ELSE cur.offset,
                     length |-> IF tag = JPEG_LENGTH_TAG
                                THEN Some(read_u32(is_le, Slice(entry, 8, 12)))
                                ELSE cur.length,
                     orientation |-> IF tag = ORIENTATION_TAG
                                     THEN Some(read_u16(is_le, Slice(entry, 8, 10)))
                                     ELSE cur.orientation]
         IN  scan_entries_to_the_end(entries_cursor, is_le, find_type, num_entries, i + 1,
                                     nxt, largest_jpeg)

RECURSIVE scan_entries(_, _, _, _, _, _, _)
scan_entries(entries_cursor, is_le, find_type, num_entries, i, cur, largest_jpeg) ==
    IF i >= num_entries \/ (i + 1) * IFD_ENTRY_SIZE > Len(entries_cursor)
    THEN largest_jpeg
    ELSE LET entry == Slice(entries_cursor, i * IFD_ENTRY_SIZE, (i + 1) * IFD_ENTRY_SIZE)
             tag == read_u16(is_le, Slice(entry, 0, 2))
             nxt == [offset |-> IF tag = JPEG_TAG
                                THEN Some(read_u32(is_le, Slice(entry, 8, 12)))
                                ELSE cur.offset,
                     length |-> IF tag = JPEG_LENGTH_TAG
                                THEN Some(read_u32(is_le, Slice(entry, 8, 12)))
                                ELSE cur.length,
                     orientation |-> IF tag = ORIENTATION_TAG
                                     THEN Some(read_u16(is_le, Slice(entry, 8, 10)))
                                     ELSE cur.orientation]
         IN  IF nxt.offset # None /\ nxt.length # None
             THEN select_jpeg(find_type, largest_jpeg, nxt.offset[1], nxt.length[1],
                              nxt.orientation)
             ELSE scan_entries(entries_cursor, is_le, find_type, num_entries, i + 1,
                               nxt, largest_jpeg)

(***************************************************************************)
(* The state of the chain walk: the byte order, the offset of the IFD to   *)
(* read next and the best candidate so far.                                *)
(***************************************************************************)
WalkState(is_le, next, best) ==
    [is_le |-> is_le, next_ifd_offset |-> next, largest_jpeg |-> best]
NoWalk == WalkState(TRUE, 0, EmbeddedJpegInfo_default)

(***************************************************************************)
(* Lines 71-94: the TIFF-relative slice, its length and magic, and the     *)
(* offset of the first IFD.                                                *)
(***************************************************************************)
scan_header(raw_buf, tiff_offset) ==
    IF ~SliceOk(raw_buf, tiff_offset, Len(raw_buf))
    THEN Panic("range start index out of range for slice", NoWalk)
    ELSE LET buf == SliceFrom(raw_buf, tiff_offset)
         IN  IF ~(Len(buf) >= 8)
             THEN Err("Not enough data for TIFF header", NoWalk)
             ELSE LET is_le == Slice(buf, 0, 4) = TIFF_MAGIC_LE
                  IN  IF ~(is_le \/ Slice(buf, 0, 4) = TIFF_MAGIC_BE)
                      THEN Err("Not a valid TIFF file", NoWalk)
                      ELSE Ok(WalkState(is_le, read_u32(is_le, Slice(buf, 4, 8)),
                                        EmbeddedJpegInfo_default))

(***************************************************************************)
(* One iteration of the while loop (lines 97-156) over the TIFF-relative   *)
(* slice buf.  Every slice is written with its own range check, as Rust    *)
(* checks it; the ensure! before it is what keeps it in range.             *)
(***************************************************************************)
\* An iteration that refuses a link leading back (a cycle guard the code lacks).
walk_ifd_with_cycle_guard(buf, find_type, w) ==
    IF ~(w.next_ifd_offset + 2 <= Len(buf))
    THEN Err("Invalid IFD offset", w)
    ELSE IF ~SliceOk(buf, w.next_ifd_offset, Len(buf))
    THEN Panic("range start index out of range for slice", w)
    ELSE LET cursor == SliceFrom(buf, w.next_ifd_offset)
         IN  IF ~SliceOk(cursor, 0, 2)
             THEN Panic("range end index 2 out of range for slice", w)
             ELSE LET num_entries == read_u16(w.is_le, Slice(cursor, 0, 2))
                      entries_cursor == SliceFrom(cursor, 2)
                      entries_len == num_entries * IFD_ENTRY_SIZE
                      next_ifd_offset_offset == 2 + entries_len
                  IN  IF ~(Len(entries_cursor) >= entries_len)
                      THEN Err("Invalid number of IFD entries", w)
                      ELSE LET best == scan_entries(entries_cursor, w.is_le, find_type,
                                                    num_entries, 0,
                                                    [offset |-> None, length |-> None,
                                                     orientation |-> None],
                                                    w.largest_jpeg)
                           IN  IF ~(Len(cursor) >= next_ifd_offset_offset + 4)
                               THEN Err("Invalid next IFD offset", [w EXCEPT !.largest_jpeg = best])
                               ELSE LET next == read_u32(w.is_le,
                                                         Slice(cursor, next_ifd_offset_offset,
                                                               next_ifd_offset_offset + 4))
                                    IN  IF next # 0 /\ next <= w.next_ifd_offset
                                        THEN Err("IFD chain loops",
                                                 [w EXCEPT !.largest_jpeg = best])
                                        ELSE Ok(WalkState(w.is_le, next, best))

walk_ifd(buf, find_type, w) ==
    IF ~(w.next_ifd_offset + 2 <= Len(buf))
    THEN Err("Invalid IFD offset", w)
    ELSE IF ~SliceOk(buf, w.next_ifd_offset, Len(buf))
    THEN Panic("range start index out of range for slice", w)
    ELSE LET cursor == SliceFrom(buf, w.next_ifd_offset)
         IN  IF ~SliceOk(cursor, 0, 2)
             THEN Panic("range end index 2 out of range for slice", w)
             ELSE LET num_entries == read_u16(w.is_le, Slice(cursor, 0, 2))
                      entries_cursor == SliceFrom(cursor, 2)
                      entries_len == num_entries * IFD_ENTRY_SIZE
                      next_ifd_offset_offset == 2 + entries_len
                  IN  IF ~(Len(entries_cursor) >= entries_len)
                      THEN Err("Invalid number of IFD entries", w)
                      ELSE LET best == scan_entries(entries_cursor, w.is_le, find_type,
                                                    num_entries, 0,
                                                    [offset |-> None, length |-> None,
                                                     orientation |-> None],
                                                    w.largest_jpeg)
                           IN  IF ~(Len(cursor) >= next_ifd_offset_offset + 4)
                               THEN Err("Invalid next IFD offset", [w EXCEPT !.largest_jpeg = best])
                               ELSE Ok(WalkState(w.is_le,
                                         read_u32(w.is_le, Slice(cursor, next_ifd_offset_offset,
                                                                 next_ifd_offset_offset + 4)),
                                         best))

(***************************************************************************)
(* Lines 159-175: the not-found and the bounds check, both against the     *)
(* TIFF-relative slice, then the translation to a buffer-relative offset.  *)
(***************************************************************************)
\* (finish_scan as it would be checking the region against the whole buffer
\* before the translation.)
finish_scan_whole_buffer(raw_buf, tiff_offset, largest_jpeg) ==
    IF ~(largest_jpeg # EmbeddedJpegInfo_default)
    THEN Err("No JPEG data found", EmbeddedJpegInfo_default)
    ELSE IF ~(largest_jpeg.offset + largest_jpeg.length <= Len(raw_buf))
    THEN Err("JPEG data exceeds file size", EmbeddedJpegInfo_default)
    ELSE Ok(EmbeddedJpegInfo(largest_jpeg.offset + tiff_offset, largest_jpeg.length,
                             largest_jpeg.orientation))

\* An end of the scan that lacks the not-found check.
finish_scan_no_sentinel(raw_buf, tiff_offset, largest_jpeg) ==
    IF ~(largest_jpeg.offset + largest_jpeg.length
                <= Len(SliceFrom(raw_buf, tiff_offset)))
    THEN Err("JPEG data exceeds file size", EmbeddedJpegInfo_default)
    ELSE Ok(EmbeddedJpegInfo(largest_jpeg.offset + tiff_offset, largest_jpeg.length,
                             largest_jpeg.orientation))

finish_scan(raw_buf, tiff_offset, largest_jpeg) ==
    IF ~(largest_jpeg # EmbeddedJpegInfo_default)
    THEN Err("No JPEG data found", EmbeddedJpegInfo_default)
    ELSE IF ~(largest_jpeg.offset + largest_jpeg.length
                <= Len(SliceFrom(raw_buf, tiff_offset)))
    THEN Err("JPEG data exceeds file size", EmbeddedJpegInfo_default)
    ELSE Ok(EmbeddedJpegInfo(largest_jpeg.offset + tiff_offset, largest_jpeg.length,
                             largest_jpeg.orientation))

(***************************************************************************)
(* The while loop (lines 96-157).  The code has no iteration cap; fuel     *)
(* stops this evaluation on a chain that loops, with kind "diverge".       *)
(***************************************************************************)
RECURSIVE walk_chain(_, _, _, _)
walk_chain(buf, find_type, w, fuel) ==
    IF w.next_ifd_offset = 0 THEN Ok(w)
    ELSE IF fuel = 0 THEN [kind |-> "diverge", val |-> w, msg |-> ""]
    ELSE LET r == walk_ifd(buf, find_type, w)
         IN  IF r.kind # "ok" THEN r
             ELSE walk_chain(buf, find_type, r.val, fuel - 1)

WalkFuel == 6

find_largest_embedded_jpeg(raw_buf, tiff_offset, find_type) ==
    LET h == scan_header(raw_buf, tiff_offset)
    IN  IF h.kind # "ok" THEN [h EXCEPT !.val = EmbeddedJpegInfo_default]
        ELSE LET r == walk_chain(SliceFrom(raw_buf, tiff_offset), find_type, h.val, WalkFuel)
             IN  IF r.kind # "ok" THEN [r EXCEPT !.val = EmbeddedJpegInfo_default]
                 ELSE finish_scan(raw_buf, tiff_offset, r.val.largest_jpeg)

(***************************************************************************)
(* extract_jpeg (lines 178-181).  The platform's prefetch_jpeg is not part *)
(* of these sources; it returns a Result, which extract_jpeg propagates    *)
(* with `?`.  hint is what the platform answered: "ok" (advised), "noop"   *)
(* (nothing to do: Ok(())) or "fail" (an Err).                             *)
(***************************************************************************)
PrefetchHints == {"ok", "noop", "fail"}
prefetch_jpeg(hint) ==
    IF hint = "fail" THEN Err("prefetch failed", <<>>) ELSE Ok(<<>>)

extract_jpeg(raw_buf, jpeg, hint) ==
    IF prefetch_jpeg(hint).kind # "ok"
    THEN Err(prefetch_jpeg(hint).msg, <<>>)
    ELSE IF ~SliceOk(raw_buf, jpeg.offset, jpeg.offset + jpeg.length)
    THEN Panic("range end index out of range for slice", <<>>)
    ELSE Ok(Slice(raw_buf, jpeg.offset, jpeg.offset + jpeg.length))

(***************************************************************************)
(* get_header_bytes and get_jpeg_data (lines 186-209).  &jpeg_buf[2..]     *)
(* panics on a slice shorter than 2 bytes.                                 *)
(***************************************************************************)
get_header_bytes(orientation) ==
    <<255, 216, 255, 225, 0, 30, 69, 120, 105, 102, 0, 0,
      73, 73, 42, 0, 8, 0, 0, 0, 1, 0, 18, 1, 3, 0, 1, 0, 0, 0,
      orientation % 256, orientation \div 256, 0, 0>>

unwrap_or(opt, dflt) == IF opt = None THEN dflt ELSE opt[1]

get_jpeg_data(jpeg_buf, jpeg_info) ==
    IF ~SliceOk(jpeg_buf, 2, Len(jpeg_buf))
    THEN Panic("range start index 2 out of range for slice", <<>>)
    ELSE Ok(get_header_bytes(unwrap_or(jpeg_info.orientation, 1)) \o SliceFrom(jpeg_buf, 2))

(***************************************************************************)
(* process_file_bytes (lines 230-261) over the mapped bytes: a failed      *)
(* header search falls back to offset 0; a panic of it is not an Err and   *)
(* unwinds through the caller.                                             *)
(***************************************************************************)
tiff_offset_of(located) == IF located.kind = "ok" THEN located.val ELSE 0

process_file_bytes(raw_buf, find_type, hint) ==
    LET located == find_tiff_header_offset(raw_buf)
    IN  IF located.kind = "panic" THEN Panic(located.msg, <<>>)
        ELSE LET info == find_largest_embedded_jpeg(raw_buf, tiff_offset_of(located), find_type)
             IN  IF info.kind # "ok" THEN [info EXCEPT !.val = <<>>]
                 ELSE LET jpeg_buf == extract_jpeg(raw_buf, info.val, hint)
                      IN  IF jpeg_buf.kind # "ok" THEN jpeg_buf
                          ELSE get_jpeg_data(jpeg_buf.val, info.val)

(***************************************************************************)
(* Input buffers.  A synthetic file is rendered from a description: the    *)
(* byte order, a prefix before the TIFF header (empty, or a JPEG APP1      *)
(* wrapper ending in Exif\0\0), 6 payload bytes at TIFF offsets 8..13, the *)
(* IFDs one after the other from TIFF offset 14, each a list of            *)
(* <<tag, value>> entries, the offset stored in the last link of the       *)
(* chain, and the number of bytes kept of the whole.                       *)
(***************************************************************************)
u16_bytes(le, v) ==
    IF le THEN <<v % 256, (v \div 256) % 256>> ELSE <<(v \div 256) % 256, v % 256>>
u32_bytes(le, v) ==
    IF le THEN <<v % 256, (v \div 256) % 256, (v \div 65536) % 256, (v \div 16777216) % 256>>
    ELSE <<(v \div 16777216) % 256, (v \div 65536) % 256, (v \div 256) % 256, v % 256>>

\* A SHORT value is left-justified in the 4-byte value field; pointer and
\* length are LONG.
EntryBytes(le, e) ==
    IF e[1] = ORIENTATION_TAG
    THEN u16_bytes(le, e[1]) \o u16_bytes(le, 3) \o u32_bytes(le, 1)
           \o u16_bytes(le, e[2]) \o <<0, 0>>
    ELSE u16_bytes(le, e[1]) \o u16_bytes(le, 4) \o u32_bytes(le, 1) \o u32_bytes(le, e[2])

RECURSIVE EntriesBytes(_, _)
EntriesBytes(le, es) ==
    IF es = <<>> THEN <<>> ELSE EntryBytes(le, Head(es)) \o EntriesBytes(le, Tail(es))

IfdSize(es) == 2 + IFD_ENTRY_SIZE * Len(es) + 4

RECURSIVE ChainBytes(_, _, _, _)
ChainBytes(le, chain, pos, last) ==
    IF chain = <<>> THEN <<>>
    ELSE LET es == Head(chain)
             nxt == IF Len(chain) = 1 THEN last ELSE pos + IfdSize(es)
         IN  u16_bytes(le, Len(es)) \o EntriesBytes(le, es) \o u32_bytes(le, nxt)
               \o ChainBytes(le, Tail(chain), pos + IfdSize(es), last)

RECURSIVE ChainSize(_)
ChainSize(chain) == IF chain = <<>> THEN 0 ELSE IfdSize(Head(chain)) + ChainSize(Tail(chain))

PlainPayload == <<160, 161, 162, 163, 164, 165>>
ExifPayload == EXIF_HEADER
App1Wrapper == <<255, 216, 255, 225, 0, 30>> \o EXIF_HEADER
FirstIfdPos == 8 + Len(PlainPayload)

TiffSize(chain) == FirstIfdPos + ChainSize(chain)

\* The value of the chain's last link: 0 ends the chain, "self" leads back
\* to the first IFD, the others lie at or beyond the end of the TIFF bytes.
LastLink(chain, last) ==
    CASE last = "end" -> 0
      [] last = "self" -> FirstIfdPos
      [] last = "edge" -> TiffSize(chain) - 1
      [] last = "oob" -> TiffSize(chain)
      [] last = "far" -> 70000

Render(s) ==
    LET whole == s.pre
                 \o (IF s.le THEN TIFF_MAGIC_LE ELSE TIFF_MAGIC_BE)
                 \o u32_bytes(s.le, IF s.chain = <<>> THEN LastLink(s.chain, s.last)
                                    ELSE FirstIfdPos)
                 \o s.payload
                 \o ChainBytes(s.le, s.chain, FirstIfdPos, LastLink(s.chain, s.last))
    IN  SubSeq(whole, 1, IF s.keep < Len(whole) THEN s.keep ELSE Len(whole))

WholeSize(s) == Len(s.pre) + TiffSize(s.chain)

\* The IFDs the synthetic chains are made of.
IfdShapes ==
    { << <<JPEG_TAG, 8>>, <<JPEG_LENGTH_TAG, 2>> >>,
      << <<ORIENTATION_TAG, 6>>, <<JPEG_TAG, 9>>, <<JPEG_LENGTH_TAG, 4>> >>,
      << <<JPEG_TAG, 10>>, <<JPEG_LENGTH_TAG, 4>>, <<ORIENTATION_TAG, 8>> >>,
      << <<JPEG_LENGTH_TAG, 0>>, <<JPEG_TAG, 11>> >>,
      << <<256, 7>>, <<JPEG_TAG, 8>> >>,
      << <<ORIENTATION_TAG, 3>>, <<JPEG_TAG, 12>>, <<JPEG_LENGTH_TAG, 50>> >>,
      << <<JPEG_TAG, 9>>, <<JPEG_LENGTH_TAG, 1>> >> }

MaxIfds == 3
Chains(n) == UNION {[1..k -> IfdShapes] : k \in 0..n}

Synth(le, pre, payload, chain, last, keep) ==
    [le |-> le, pre |-> pre, payload |-> payload, chain |-> chain, last |-> last,
     keep |-> keep]

\* Well-formed chains of up to MaxIfds IFDs, wrapped or bare, in both byte
\* orders.
ChainFiles ==
    {Synth(le, pre, PlainPayload, c, "end", Len(pre) + TiffSize(c)) :
        le \in BOOLEAN, pre \in {<<>>, App1Wrapper}, c \in Chains(MaxIfds)}

\* A mapped file holds at least one byte.
AtLeastOne(n) == IF n < 1 THEN 1 ELSE n

\* At most one IFD, wrapped or bare, with every kind of last link and cut.
EdgeFiles ==
    UNION {{Synth(le, pre, pay, c, last, AtLeastOne(Len(pre) + TiffSize(c) - cut)) :
              le \in BOOLEAN, pre \in {<<>>, App1Wrapper},
              pay \in {PlainPayload, ExifPayload},
              last \in {"end", "self", "edge", "oob", "far"}, cut \in {0, 1, 5, 20}} :
           c \in Chains(1)}

\* The first 1..9 bytes of a file.
MaxTiny == 9
TinyFiles ==
    {Synth(le, pre, PlainPayload, <<>>, "end", keep) :
        le \in BOOLEAN, pre \in {<<>>, App1Wrapper}, keep \in 1..MaxTiny}

\* IFDs holding half a pair, and one with orientation entries before and
\* after its pair; well-formed chains of up to MaxPair of them.
LengthOnlyShape == << <<JPEG_LENGTH_TAG, 6>> >>
PointerOnlyShape == << <<ORIENTATION_TAG, 5>>, <<JPEG_TAG, 8>> >>
OrientedPairShape ==
    << <<ORIENTATION_TAG, 6>>, <<ORIENTATION_TAG, 3>>, <<JPEG_TAG, 9>>,
       <<JPEG_LENGTH_TAG, 4>>, <<ORIENTATION_TAG, 8>> >>
PairShapes == {LengthOnlyShape, PointerOnlyShape, OrientedPairShape}
MaxPair == 2
PairFiles ==
    UNION {{Synth(le, pre, PlainPayload, c, "end", Len(pre) + TiffSize(c)) :
              le \in BOOLEAN, pre \in {<<>>, App1Wrapper}} :
           c \in UNION {[1..k -> PairShapes] : k \in 1..MaxPair}}

Synths == ChainFiles \cup EdgeFiles \cup TinyFiles \cup PairFiles

WellFormed(s) == s.last = "end" /\ s.keep = WholeSize(s)

(***************************************************************************)
(* State.  The per-file pipeline (process_file_bytes, step by step):       *)
(*   synth, raw_buf, find_type   the file, its mapped bytes, the policy    *)
(*   pc                          the step to take next                     *)
(*   tiff_offset                 what header location answered             *)
(*   is_le, next_ifd_offset, largest_jpeg   the locals of the chain walk   *)
(*   jpeg_info, jpeg_buf         the scanner's answer and the slice        *)
(*   hint                        what the platform's prefetch answered     *)
(*   res                         the pipeline's result; at: the step that  *)
(*                               ended it                                  *)
(* The batch (process_directory):                                          *)
(*   entries, transfers          the discovered files, the semaphore size  *)
(*   permits                     permits available                         *)
(*   tasks                       per file: pc, permit held, result         *)
(*   batch                       the main task: pc, index, nr_failed       *)
(*   outputs                     the output files written, path -> bytes   *)
(* The directory walk (process_directory, lines 52-86):                    *)
(*   extension                   the extra extension of the command line   *)
(*   dir_queue                   the directories still to read             *)
(*   out_dirs                    the output directories that exist         *)
(***************************************************************************)
VARIABLES synth, raw_buf, find_type, pc, tiff_offset, is_le, next_ifd_offset,
          largest_jpeg, jpeg_info, jpeg_buf, hint, res, at,
          entries, transfers, permits, tasks, batch, outputs,
          extension, dir_queue, out_dirs

scan_vars == <<synth, raw_buf, find_type, pc, tiff_offset, is_le, next_ifd_offset,
               largest_jpeg, jpeg_info, jpeg_buf, hint, res, at>>
walk_vars == <<extension, dir_queue, out_dirs>>
batch_vars == <<entries, transfers, permits, tasks, batch, outputs, walk_vars>>
vars == <<scan_vars, batch_vars>>

Running == [kind |-> "run", val |-> <<>>, msg |-> ""]

BatchIdle ==
    /\ entries = <<>>
    /\ transfers = 0
    /\ permits = 0
    /\ tasks = <<>>
    /\ batch = [pc |-> "idle", i |-> 0, nr_failed |-> 0, result |-> "none"]
    /\ outputs = <<>>
    /\ extension = None
    /\ dir_queue = <<>>
    /\ out_dirs = {}

ScanStart ==
    /\ pc = "locate"
    /\ tiff_offset = 0
    /\ is_le = TRUE
    /\ next_ifd_offset = 0
    /\ largest_jpeg = EmbeddedJpegInfo_default
    /\ jpeg_info = EmbeddedJpegInfo_default
    /\ jpeg_buf = <<>>
    /\ hint = "none"
    /\ res = Running
    /\ at = "none"

(***************************************************************************)
(* Buffers given byte by byte: a little-endian TIFF header with its first  *)
(* IFD at 8, a pointer entry (tag 0x0201, value 0x10), a length entry (tag *)
(* 0x0202, value 5; written like the pointer entry, a SHORT of count 1)    *)
(* and the four zero bytes of the link. OneEntryScenario announces one     *)
(* entry (01 00), TwoEntryScenario announces the two it holds (02 00).     *)
(***************************************************************************)
ScenarioHeader == <<73, 73, 42, 0, 8, 0, 0, 0>>
ScenarioPointerEntry == <<1, 2, 3, 0, 1, 0, 0, 0, 16, 0, 0, 0>>
ScenarioLengthEntry == <<2, 2, 3, 0, 1, 0, 0, 0, 5, 0, 0, 0>>
ScenarioBuffer(count) ==
    ScenarioHeader \o u16_bytes(TRUE, count) \o ScenarioPointerEntry
                   \o ScenarioLengthEntry \o <<0, 0, 0, 0>>
OneEntryScenario == ScenarioBuffer(1)
TwoEntryScenario == ScenarioBuffer(2)
ScenarioFiles == {OneEntryScenario, TwoEntryScenario}
\* The description of a buffer that was not rendered from a description.
Literal == Synth(TRUE, <<>>, <<>>, <<>>, "literal", 0)

Init ==
    /\ \/ synth \in Synths /\ raw_buf = Render(synth)
       \/ synth = Literal /\ raw_buf \in ScenarioFiles
    /\ find_type \in {"Largest", "Smallest"}
    /\ ScanStart
    /\ BatchIdle

\* The pipeline ends at step `step` with result r.
Finish(step, r) ==
    /\ pc' = "done"
    /\ at' = step
    /\ res' = [kind |-> r.kind, val |-> IF r.kind = "ok" THEN r.val ELSE <<>>, msg |-> r.msg]

\* Lines 240-244: find_tiff_header_offset, falling back to 0 on Err.
LocateHeader ==
    /\ pc = "locate"
    /\ LET located == find_tiff_header_offset(raw_buf)
       IN  IF located.kind = "panic"
           THEN /\ Finish("locate", located)
                /\ UNCHANGED tiff_offset
           ELSE /\ tiff_offset' = tiff_offset_of(located)
                /\ pc' = "header"
                /\ UNCHANGED <<res, at>>
    /\ UNCHANGED <<synth, raw_buf, find_type, is_le, next_ifd_offset, largest_jpeg,
                   jpeg_info, jpeg_buf, hint>>
    /\ UNCHANGED batch_vars

\* Lines 71-94 of find_largest_embedded_jpeg.
ScanHeader ==
    /\ pc = "header"
    /\ LET h == scan_header(raw_buf, tiff_offset)
       IN  IF h.kind # "ok"
           THEN /\ Finish("header", h)
                /\ UNCHANGED <<is_le, next_ifd_offset, largest_jpeg>>
           ELSE /\ is_le' = h.val.is_le
                /\ next_ifd_offset' = h.val.next_ifd_offset
                /\ largest_jpeg' = h.val.largest_jpeg
                /\ pc' = "walk"
                /\ UNCHANGED <<res, at>>
    /\ UNCHANGED <<synth, raw_buf, find_type, tiff_offset, jpeg_info, jpeg_buf, hint>>
    /\ UNCHANGED batch_vars

\* One iteration of `while next_ifd_offset != 0` (lines 96-157).
WalkIfd ==
    /\ pc = "walk"
    /\ next_ifd_offset # 0
    /\ LET r == walk_ifd(SliceFrom(raw_buf, tiff_offset), find_type,
                         WalkState(is_le, next_ifd_offset, largest_jpeg))
       IN  IF r.kind # "ok"
           THEN /\ Finish("walk", r)
                /\ largest_jpeg' = r.val.largest_jpeg
                /\ UNCHANGED next_ifd_offset
           ELSE /\ next_ifd_offset' = r.val.next_ifd_offset
                /\ largest_jpeg' = r.val.largest_jpeg
                /\ UNCHANGED <<pc, res, at>>
    /\ UNCHANGED <<synth, raw_buf, find_type, tiff_offset, is_le, jpeg_info, jpeg_buf, hint>>
    /\ UNCHANGED batch_vars

\* The loop's exit and lines 159-175.
FinishScan ==
    /\ pc = "walk"
    /\ next_ifd_offset = 0
    /\ LET r == finish_scan(raw_buf, tiff_offset, largest_jpeg)
       IN  IF r.kind # "ok"
           THEN /\ Finish("finish", r)
                /\ UNCHANGED jpeg_info
           ELSE /\ jpeg_info' = r.val
                /\ pc' = "extract"
                /\ UNCHANGED <<res, at>>
    /\ UNCHANGED <<synth, raw_buf, find_type, tiff_offset, is_le, next_ifd_offset,
                   largest_jpeg, jpeg_buf, hint>>
    /\ UNCHANGED batch_vars

\* extract_jpeg (line 253), with whatever the platform's prefetch answers.
ExtractJpeg ==
    /\ pc = "extract"
    /\ \E h \in PrefetchHints :
          /\ hint' = h
          /\ LET r == extract_jpeg(raw_buf, jpeg_info, h)
             IN  IF r.kind # "ok"
                 THEN /\ Finish("extract", r)
                      /\ UNCHANGED jpeg_buf
                 ELSE /\ jpeg_buf' = r.val
                      /\ pc' = "assemble"
                      /\ UNCHANGED <<res, at>>
    /\ UNCHANGED <<synth, raw_buf, find_type, tiff_offset, is_le, next_ifd_offset,
                   largest_jpeg, jpeg_info>>
    /\ UNCHANGED batch_vars

\* get_jpeg_data (line 257) and the return of process_file_bytes.
GetJpegData ==
    /\ pc = "assemble"
    /\ Finish("assemble", get_jpeg_data(jpeg_buf, jpeg_info))
    /\ UNCHANGED <<synth, raw_buf, find_type, tiff_offset, is_le, next_ifd_offset,
                   largest_jpeg, jpeg_info, jpeg_buf, hint>>
    /\ UNCHANGED batch_vars

Next ==
    \/ LocateHeader
    \/ ScanHeader
    \/ WalkIfd
    \/ FinishScan
    \/ ExtractJpeg
    \/ GetJpegData

Spec == Init /\ [][Next]_vars

(***************************************************************************)
(* The pipeline over chains that end, lead nowhere or lead back to their   *)
(* first IFD.  The pipeline is one sequential computation: it takes its    *)
(* next step as long as it has one (weak fairness of Next).                *)
(***************************************************************************)
LoopShapes ==
    { << <<JPEG_TAG, 8>>, <<JPEG_LENGTH_TAG, 2>> >>,
      << <<256, 7>>, <<JPEG_TAG, 8>> >> }
MaxLoop == 2
LoopChains == UNION {[1..k -> LoopShapes] : k \in 0..MaxLoop}
LoopFiles ==
    UNION {{Synth(le, pre, PlainPayload, c, last, Len(pre) + TiffSize(c)) :
              le \in BOOLEAN, pre \in {<<>>, App1Wrapper},
              last \in {"end", "self", "edge", "oob", "far"}} :
           c \in LoopChains}
WalkInit ==
    /\ synth \in LoopFiles
    /\ raw_buf = Render(synth)
    /\ find_type \in {"Largest", "Smallest"}
    /\ ScanStart
    /\ BatchIdle
WalkSpec == WalkInit /\ [][Next]_vars /\ WF_vars(Next)

(***************************************************************************)
(* What a synthetic file declares, read off its description (not off its   *)
(* bytes): the IFDs holding both a pointer and a length entry, and the     *)
(* first of them with the greatest (least) length.                         *)
(***************************************************************************)
HasTag(es, tag) == \E k \in 1..Len(es) : es[k][1] = tag
TagValue(es, tag) == es[CHOOSE k \in 1..Len(es) : es[k][1] = tag][2]
Declares(es) == HasTag(es, JPEG_TAG) /\ HasTag(es, JPEG_LENGTH_TAG)
DeclIdx(chain) == {k \in 1..Len(chain) : Declares(chain[k])}
DeclPtr(chain, k) == TagValue(chain[k], JPEG_TAG)
DeclLen(chain, k) == TagValue(chain[k], JPEG_LENGTH_TAG)
FirstMaxIdx(chain) ==
    CHOOSE k \in DeclIdx(chain) : \A j \in DeclIdx(chain) :
        DeclLen(chain, j) < DeclLen(chain, k) \/ (DeclLen(chain, j) = DeclLen(chain, k) /\ k <= j)
FirstMinIdx(chain) ==
    CHOOSE k \in DeclIdx(chain) : \A j \in DeclIdx(chain) :
        DeclLen(chain, j) > DeclLen(chain, k) \/ (DeclLen(chain, j) = DeclLen(chain, k) /\ k <= j)
\* TIFF keeps an IFD's entries in ascending tag order.
SortedTags(es) == \A j, k \in 1..Len(es) : j < k => es[j][1] < es[k][1]

\* The scanner returned an info (Ok) / the chain walk reached offset zero.
ScanReturned ==
    pc \in {"extract", "assemble"} \/ (pc = "done" /\ at \in {"extract", "assemble"})
ScanOver == ScanReturned \/ (pc = "done" /\ at = "finish")

(***************************************************************************)
(* C1: an info the scanner returns lies within the whole buffer (its       *)
(* buffer-relative offset plus its length is at most the buffer's length), *)
(* for every buffer, policy and chain; and a selected region that exceeds  *)
(* the buffer ends the scan with the error, not with an info.              *)
(***************************************************************************)
C1_ReturnedRegionInBuffer ==
    /\ ScanReturned => jpeg_info.offset + jpeg_info.length <= Len(raw_buf)
    /\ (ScanOver /\ largest_jpeg # EmbeddedJpegInfo_default
          /\ tiff_offset + largest_jpeg.offset + largest_jpeg.length > Len(raw_buf))
         => (pc = "done" /\ at = "finish" /\ res.kind = "err"
               /\ res.msg = "JPEG data exceeds file size")

\* A wrapped file (the TIFF header is not at offset 0) whose region is returned.
C1_Witness ==
    ScanReturned /\ tiff_offset > 0 /\ jpeg_info.length > 0
      /\ jpeg_info.offset = tiff_offset + largest_jpeg.offset

(***************************************************************************)
(* C2: header location and the chain walk never index past the buffer:     *)
(* neither step ends in a panic, whatever the buffer.                      *)
(***************************************************************************)
C2_ScannerNeverPanics ==
    ~(pc = "done" /\ at \in {"locate", "header", "walk", "finish"} /\ res.kind = "panic")

C4_SmallestReturnsFirstMinimum ==
    (find_type = "Smallest" /\ WellFormed(synth) /\ ScanReturned) =>
        LET chain == synth.chain
        IN  /\ DeclIdx(chain) # {}
            /\ jpeg_info.offset = Len(synth.pre) + DeclPtr(chain, FirstMinIdx(chain))
            /\ jpeg_info.length = DeclLen(chain, FirstMinIdx(chain))

(***************************************************************************)
(* C5: for every info the scanner returns, assembly yields the 34-byte     *)
(* header carrying the orientation (1 when absent) in little-endian order, *)
(* then the length - 2 bytes of the buffer from offset + 2 on: length + 32 *)
(* bytes in all.                                                           *)
(***************************************************************************)
FixedHeader(lo, hi) ==
    <<255, 216, 255, 225, 0, 30, 69, 120, 105, 102, 0, 0, 73, 73, 42, 0, 8, 0, 0, 0,
      1, 0, 18, 1, 3, 0, 1, 0, 0, 0, lo, hi, 0, 0>>

C5_AssembledOutput ==
    (pc = "done" /\ at = "assemble") =>
        LET o == IF jpeg_info.orientation = None THEN 1 ELSE jpeg_info.orientation[1]
        IN  /\ res.kind = "ok"
            /\ Len(res.val) = jpeg_info.length + 32
            /\ SubSeq(res.val, 1, 34) = FixedHeader(o % 256, o \div 256)
            /\ \A k \in 1..(jpeg_info.length - 2) :
                   res.val[34 + k] = raw_buf[jpeg_info.offset + 2 + k]

(***************************************************************************)
(* C9: the pipeline's outcome does not depend on the prefetch hint: it is  *)
(* the outcome of the same file under a hint that does nothing.            *)
(***************************************************************************)
C9_PrefetchNeverDecides ==
    (pc = "done" /\ hint # "none") =>
        LET quiet == process_file_bytes(raw_buf, find_type, "noop")
        IN  res.kind = quiet.kind /\ res.val = quiet.val

(***************************************************************************)
(* C10: on a valid TIFF buffer of either byte order with a single IFD      *)
(* (entries in tag order) declaring a non-empty region inside the TIFF     *)
(* bytes, the scanner run after header location returns the declared       *)
(* offset and length and the declared orientation, absent when the IFD has *)
(* no orientation entry.                                                   *)
(***************************************************************************)
C10_SingleIfdDeclared ==
    LET chain == synth.chain
    IN  (/\ WellFormed(synth) /\ synth.pre = <<>> /\ Len(chain) = 1
         /\ Declares(chain[1]) /\ SortedTags(chain[1])
         /\ DeclLen(chain, 1) > 0
         /\ DeclPtr(chain, 1) + DeclLen(chain, 1) <= TiffSize(chain)
         /\ pc \in {"extract", "assemble", "done"})
        => /\ ScanReturned
           /\ jpeg_info = EmbeddedJpegInfo(DeclPtr(chain, 1), DeclLen(chain, 1),
                             IF HasTag(chain[1], ORIENTATION_TAG)
                             THEN Some(TagValue(chain[1], ORIENTATION_TAG)) ELSE None)

(***************************************************************************)
(* The batch: process_directory from the semaphore on (main.rs 95-131).    *)
(*                                                                         *)
(* The input tree is fixed: four RAW files, each with its bytes.  A batch  *)
(* discovers any of them in any order (read_dir gives no order).  Paths    *)
(* are <<directory, stem, extension>>.                                     *)
(***************************************************************************)
ShapeA == << <<ORIENTATION_TAG, 6>>, <<JPEG_TAG, 9>>, <<JPEG_LENGTH_TAG, 4>> >>
ShapeB == << <<JPEG_TAG, 10>>, <<JPEG_LENGTH_TAG, 4>> >>
GoodA == Render(Synth(TRUE, <<>>, PlainPayload, <<ShapeA>>, "end", TiffSize(<<ShapeA>>)))
GoodB == Render(Synth(FALSE, <<>>, PlainPayload, <<ShapeB>>, "end", TiffSize(<<ShapeB>>)))
NotTiff == <<0, 1, 2, 3, 4, 5, 6, 7>>
ThreeBytes == <<73, 73, 42>>

(***************************************************************************)
(* File names.  An extension is the sequence of its characters' codes, the *)
(* empty sequence for a name without one; a path is <<directory, stem,     *)
(* extension>>, the directory a sequence of names relative to the root.    *)
(* The twenty default extensions of main.rs 53-54:                         *)
(***************************************************************************)
arw == <<97, 114, 119>>
cr2 == <<99, 114, 50>>
crw == <<99, 114, 119>>
dng == <<100, 110, 103>>
erf == <<101, 114, 102>>
kdc == <<107, 100, 99>>
mef == <<109, 101, 102>>
mrw == <<109, 114, 119>>
nef == <<110, 101, 102>>
nrw == <<110, 114, 119>>
orf == <<111, 114, 102>>
pef == <<112, 101, 102>>
raf == <<114, 97, 102>>
raw == <<114, 97, 119>>
rw2 == <<114, 119, 50>>
rwl == <<114, 119, 108>>
sr2 == <<115, 114, 50>>
srf == <<115, 114, 102>>
srw == <<115, 114, 119>>
x3f == <<120, 51, 102>>
jpg == <<106, 112, 103>>
DefaultExtensions ==
    <<arw, cr2, crw, dng, erf, kdc, mef, mrw, nef, nrw,
      orf, pef, raf, raw, rw2, rwl, sr2, srf, srw, x3f>>

\* str::to_uppercase / to_lowercase on ASCII text.
to_uppercase(s) == [i \in 1..Len(s) |-> IF s[i] \in 97..122 THEN s[i] - 32 ELSE s[i]]
to_lowercase(s) == [i \in 1..Len(s) |-> IF s[i] \in 65..90 THEN s[i] + 32 ELSE s[i]]

\* Lines 52-59: each default as written and in upper case, and the extra
\* extension as given.
valid_extensions(ext) ==
    UNION {{DefaultExtensions[i], to_uppercase(DefaultExtensions[i])} :
              i \in 1..Len(DefaultExtensions)}
      \cup (IF ext = None THEN {} ELSE {ext[1]})

\* Lines 72-75: path.extension().is_some_and(|ext| valid_extensions.contains(ext)).
is_valid(path, ext) == path[3] # <<>> /\ path[3] \in valid_extensions(ext)

\* create_dir_all: the directory and every ancestor of it exist afterwards.
create_dir_leaf(dir) == {dir}
create_dir_all(dir) == {SubSeq(dir, 1, n) : n \in 0..Len(dir)}

InputTree ==
    { [path |-> << <<"d">>, "a", cr2 >>, bytes |-> GoodA],
      [path |-> << <<"d">>, "a", dng >>, bytes |-> GoodB],
      [path |-> << <<"d">>, "b", nef >>, bytes |-> NotTiff],
      [path |-> << <<"e">>, "c", raw >>, bytes |-> ThreeBytes] }

MaxFiles == 3
MaxTransfers == 3

EntryLists ==
    UNION {{es \in [1..n -> InputTree] : \A j, k \in 1..n : j # k => es[j] # es[k]} :
           n \in 0..MaxFiles}

\* out_dir.join(relative_path) with set_extension("jpg") (parser/mod.rs 220-221).
OutputFile(path) == <<path[1], path[2], jpg>>

\* What process_file makes of a file's bytes (parser/mod.rs 219), the
\* platform's prefetch succeeding.
PipelineOf(file) == process_file_bytes(file.bytes, "Largest", "ok")

NoTask == [pc |-> "unspawned", permit |-> FALSE, attempts |-> 0, data |-> <<>>,
           result |-> "none"]

ScanIdle ==
    /\ synth = Synth(TRUE, <<>>, PlainPayload, <<>>, "end", 0)
    /\ raw_buf = <<>>
    /\ find_type = "Largest"
    /\ pc = "idle"
    /\ tiff_offset = 0
    /\ is_le = TRUE
    /\ next_ifd_offset = 0
    /\ largest_jpeg = EmbeddedJpegInfo_default
    /\ jpeg_info = EmbeddedJpegInfo_default
    /\ jpeg_buf = <<>>
    /\ hint = "none"
    /\ res = Running
    /\ at = "none"

\* Line 95-96: Semaphore::new(transfers), no task spawned yet.
BatchInit ==
    /\ entries \in EntryLists
    /\ transfers \in 0..MaxTransfers
    /\ permits = transfers
    /\ tasks = [k \in 1..Len(entries) |-> NoTask]
    /\ batch = [pc |-> "spawn", i |-> 1, nr_failed |-> 0, result |-> "none"]
    /\ outputs = <<>>
    /\ extension = None
    /\ dir_queue = <<>>
    /\ out_dirs = {<<>>} \cup UNION {create_dir_all(entries[k].path[1]) : k \in 1..Len(entries)}
    /\ ScanIdle

\* The runtime runs tasks until main returns.
RuntimeUp == batch.pc # "done"

\* Lines 98-113: the next file's task is spawned; after the last, main
\* turns to the handles.
SpawnTask ==
    /\ batch.pc = "spawn"
    /\ IF batch.i <= Len(entries)
       THEN /\ tasks' = [tasks EXCEPT ![batch.i].pc = "queued"]
            /\ batch' = [batch EXCEPT !.i = batch.i + 1]
       ELSE /\ batch' = [batch EXCEPT !.pc = "collect", !.i = 1]
            /\ UNCHANGED tasks
    /\ UNCHANGED <<entries, transfers, permits, outputs>>
    /\ UNCHANGED <<scan_vars, walk_vars>>

\* (acquire as it would be if it never waited.)
CanAcquire_never_waits(available) == TRUE

\* Line 103: acquire_owned().await completes only when a permit is free.
CanAcquire(available) == available > 0

AcquirePermit(k) ==
    /\ RuntimeUp
    /\ tasks[k].pc = "queued"
    /\ CanAcquire(permits)
    /\ permits' = permits - 1
    /\ tasks' = [tasks EXCEPT ![k].pc = "process", ![k].permit = TRUE]
    /\ UNCHANGED <<entries, transfers, batch, outputs>>
    /\ UNCHANGED <<scan_vars, walk_vars>>

\* Line 104, first half: process_file_bytes (open, map, scan, assemble).  An
\* Err ends process_file; a panic unwinds the task, dropping its permit.
ProcessFile(k) ==
    /\ RuntimeUp
    /\ tasks[k].pc = "process"
    /\ LET r == PipelineOf(entries[k])
       IN  CASE r.kind = "ok" ->
                  /\ tasks' = [tasks EXCEPT ![k].pc = "write", ![k].data = r.val,
                                            ![k].attempts = @ + 1]
                  /\ UNCHANGED permits
             [] r.kind = "err" ->
                  /\ tasks' = [tasks EXCEPT ![k].pc = "release", ![k].result = "err",
                                            ![k].attempts = @ + 1]
                  /\ UNCHANGED permits
             [] OTHER ->
                  /\ tasks' = [tasks EXCEPT ![k].pc = "panicked", ![k].result = "panic",
                                            ![k].permit = FALSE, ![k].attempts = @ + 1]
                  /\ permits' = permits + 1
    /\ UNCHANGED <<entries, transfers, batch, outputs>>
    /\ UNCHANGED <<scan_vars, walk_vars>>

\* Line 104, second half (parser/mod.rs 220-226): the output file's parent
\* is created if missing and the bytes are written to the output file,
\* replacing what it held.
WriteOutput(k) ==
    /\ RuntimeUp
    /\ tasks[k].pc = "write"
    /\ LET out == OutputFile(entries[k].path)
       IN  outputs' = [f \in DOMAIN outputs \cup {out} |->
                          IF f = out THEN tasks[k].data ELSE outputs[f]]
    /\ out_dirs' = out_dirs \cup create_dir_all(OutputFile(entries[k].path)[1])
    /\ tasks' = [tasks EXCEPT ![k].pc = "release", ![k].result = "ok"]
    /\ UNCHANGED <<entries, transfers, permits, batch, extension, dir_queue>>
    /\ UNCHANGED scan_vars

\* Lines 105-110: drop(permit), the progress bar, the task's return.
ReleasePermit(k) ==
    /\ RuntimeUp
    /\ tasks[k].pc = "release"
    /\ permits' = permits + 1
    /\ tasks' = [tasks EXCEPT ![k].pc = "finished", ![k].permit = FALSE]
    /\ UNCHANGED <<entries, transfers, batch, outputs>>
    /\ UNCHANGED <<scan_vars, walk_vars>>

\* Lines 116-123: task.await?? on the handles in order.  A panicked task
\* gives a JoinError, which `?` returns from process_directory at once.
AwaitTask ==
    /\ batch.pc = "collect"
    /\ batch.i <= Len(entries)
    /\ tasks[batch.i].pc \in {"finished", "panicked"}
    /\ IF tasks[batch.i].pc = "panicked"
       THEN batch' = [batch EXCEPT !.pc = "done", !.result = "join_error"]
       ELSE batch' = [batch EXCEPT !.i = batch.i + 1,
                                   !.nr_failed = IF tasks[batch.i].result = "err"
                                                 THEN @ + 1 ELSE @]
    /\ UNCHANGED <<entries, transfers, permits, tasks, outputs>>
    /\ UNCHANGED <<scan_vars, walk_vars>>

\* Lines 125-131.
ReportBatch ==
    /\ batch.pc = "collect"
    /\ batch.i > Len(entries)
    /\ batch' = [batch EXCEPT !.pc = "done",
                              !.result = IF batch.nr_failed # 0 THEN "failed" ELSE "ok"]
    /\ UNCHANGED <<entries, transfers, permits, tasks, outputs>>
    /\ UNCHANGED <<scan_vars, walk_vars>>

BatchNext ==
    \/ SpawnTask
    \/ \E k \in 1..Len(entries) : AcquirePermit(k)
    \/ \E k \in 1..Len(entries) : ProcessFile(k)
    \/ \E k \in 1..Len(entries) : WriteOutput(k)
    \/ \E k \in 1..Len(entries) : ReleasePermit(k)
    \/ AwaitTask
    \/ ReportBatch

BatchSpec == BatchInit /\ [][BatchNext]_vars

(***************************************************************************)
(* The directory walk (main.rs 61-86) over an input tree, followed by the  *)
(* batch.  The root is the directory <<>>; read_dir hands out a            *)
(* directory's children in any order.                                      *)
(***************************************************************************)
xyz == <<120, 121, 122>>
txt == <<116, 120, 116>>
TreeDirs == {<<>>, <<"d">>, <<"d", "s">>, <<"e">>, <<"e", "t">>}
TreeFiles ==
    { [path |-> << <<>>, "a", cr2 >>, bytes |-> GoodA],
      [path |-> << <<>>, "n", txt >>, bytes |-> GoodA],
      [path |-> << <<"d">>, "b", to_uppercase(cr2) >>, bytes |-> GoodB],
      [path |-> << <<"d">>, "c", <<67, 114, 50>> >>, bytes |-> GoodA],
      [path |-> << <<"d", "s">>, "r", <<>> >>, bytes |-> GoodB],
      [path |-> << <<"e">>, "f", xyz >>, bytes |-> GoodB],
      [path |-> << <<"e", "t">>, "h", to_uppercase(nef) >>, bytes |-> NotTiff] }
ExtraExtensions == {None, Some(xyz)}

SubDirs(dir) ==
    {x \in TreeDirs : Len(x) = Len(dir) + 1 /\ SubSeq(x, 1, Len(dir)) = dir}
FilesIn(dir) == {f \in TreeFiles : f.path[1] = dir}
Orders(S) ==
    {s \in [1..Cardinality(S) -> S] : \A j, k \in 1..Cardinality(S) : j # k => s[j] # s[k]}

\* main.rs 141 has created the output root; lines 61-62.
DirInit ==
    /\ entries = <<>>
    /\ transfers \in 0..MaxTransfers
    /\ permits = 0
    /\ tasks = <<>>
    /\ batch = [pc |-> "walk", i |-> 1, nr_failed |-> 0, result |-> "none"]
    /\ outputs = <<>>
    /\ extension \in ExtraExtensions
    /\ dir_queue = << <<>> >>
    /\ out_dirs = {<<>>}
    /\ ScanIdle

\* One iteration of `while let Some(current_dir) = dir_queue.pop()` (lines
\* 64-86): subdirectories are pushed, matching files are appended to
\* entries, and the mirrored output directory is created if one was found.
ReadDirectory ==
    /\ batch.pc = "walk"
    /\ dir_queue # <<>>
    /\ LET current_dir == dir_queue[Len(dir_queue)]
           found_raw == {f \in FilesIn(current_dir) : is_valid(f.path, extension)}
       IN  /\ \E ds \in Orders(SubDirs(current_dir)), fs \in Orders(found_raw) :
                 /\ dir_queue' = SubSeq(dir_queue, 1, Len(dir_queue) - 1) \o ds
                 /\ entries' = entries \o fs
                 /\ tasks' = [k \in 1..Len(entries \o fs) |-> NoTask]
           /\ out_dirs' = IF found_raw # {}
                          THEN out_dirs \cup create_dir_all(current_dir)
                          ELSE out_dirs
    /\ UNCHANGED <<transfers, permits, batch, outputs, extension>>
    /\ UNCHANGED scan_vars

\* Lines 88-96: the queue is empty; the semaphore is made.
StartBatch ==
    /\ batch.pc = "walk"
    /\ dir_queue = <<>>
    /\ permits' = transfers
    /\ batch' = [batch EXCEPT !.pc = "spawn"]
    /\ UNCHANGED <<entries, transfers, tasks, outputs, walk_vars>>
    /\ UNCHANGED scan_vars

DirNext ==
    \/ ReadDirectory
    \/ StartBatch
    \/ BatchNext

DirSpec == DirInit /\ [][DirNext]_vars

(***************************************************************************)
(* C6: at most `transfers` tasks are between acquiring and releasing a     *)
(* permit; permits held plus permits available is `transfers`; a task      *)
(* processes or writes a file only while it holds a permit.                *)
(***************************************************************************)
Holders == {k \in 1..Len(entries) : tasks[k].permit}
InPipeline == {k \in 1..Len(entries) : tasks[k].pc \in {"process", "write", "release"}}

C6_PermitsBoundThePipeline ==
    /\ Cardinality(InPipeline) <= transfers
    /\ Cardinality(Holders) + permits = transfers
    /\ permits >= 0
    /\ \A k \in InPipeline : tasks[k].permit

\* Two tasks in the pipeline at once, a third waiting for a permit.
C6_Witness ==
    /\ transfers = 2 /\ Cardinality(InPipeline) = 2 /\ permits = 0
    /\ \E k \in 1..Len(entries) : tasks[k].pc = "queued"

(***************************************************************************)
(* C7: when the batch ends, every file's pipeline has been attempted       *)
(* exactly once; the batch result is success iff every file's outcome is   *)
(* success, and otherwise the failure count is the number of files whose   *)
(* outcome is an error.                                                    *)
(***************************************************************************)
C7_BestEffortBatch ==
    batch.pc = "done" =>
        /\ \A k \in 1..Len(entries) : tasks[k].attempts = 1
        /\ batch.result = "ok" <=> \A k \in 1..Len(entries) : tasks[k].result = "ok"
        /\ batch.result # "ok" =>
              /\ batch.result = "failed"
              /\ batch.nr_failed
                   = Cardinality({k \in 1..Len(entries) : tasks[k].result # "ok"})

(***************************************************************************)
(* C8: whatever the concurrency level and the interleaving, a batch that   *)
(* has collected every outcome leaves, for each input whose pipeline       *)
(* succeeds, its bytes in <dir>/<stem>.jpg, and no other output file.      *)
(***************************************************************************)
C8_OutputsIndependentOfSchedule ==
    (batch.pc = "done" /\ batch.result \in {"ok", "failed"}) =>
        /\ \A k \in 1..Len(entries) :
              PipelineOf(entries[k]).kind = "ok" =>
                  /\ OutputFile(entries[k].path) \in DOMAIN outputs
                  /\ outputs[OutputFile(entries[k].path)] = PipelineOf(entries[k]).val
        /\ DOMAIN outputs = {OutputFile(entries[k].path) :
                                k \in {j \in 1..Len(entries) : PipelineOf(entries[j]).kind = "ok"}}

(***************************************************************************)
(* C11: the scenario buffer whose entry count is 02 00 (the header, the    *)
(* pointer entry of value 0x10, the length entry of value 5, the zero      *)
(* link) yields the info {offset 0x10, length 5, no orientation} under     *)
(* either policy; with the entry count 01 00 the four bytes after the      *)
(* pointer entry (02 02 03 00) are read as the link and the scan fails     *)
(* with "Invalid IFD offset".                                              *)
(***************************************************************************)
ScenarioInfo == EmbeddedJpegInfo(16, 5, None)
PastWalk == pc \notin {"locate", "header", "walk"}
C11_TwoEntryScenarioYieldsInfo ==
    /\ (raw_buf = TwoEntryScenario /\ PastWalk) =>
            ScanReturned /\ jpeg_info = ScenarioInfo
    /\ (raw_buf = OneEntryScenario /\ pc = "done") =>
            at = "walk" /\ res.kind = "err" /\ res.msg = "Invalid IFD offset"
C11_Witness ==
    /\ raw_buf = TwoEntryScenario
    /\ ScanReturned
    /\ jpeg_info = ScenarioInfo

\* C11 as stated: the buffer whose entry count is 01 00 yields that info.
C11_OneEntryScenarioYieldsInfo ==
    (raw_buf = OneEntryScenario /\ PastWalk) =>
        ScanReturned /\ jpeg_info = ScenarioInfo

(***************************************************************************)
(* C14: when process_file_bytes succeeds on a buffer under both policies,  *)
(* the output of Largest is at least as long as the output of Smallest.    *)
(* The run's own result is one policy's output; the other policy's is      *)
(* computed on the same buffer, for every answer of the prefetch.          *)
(***************************************************************************)
OtherPolicy == IF find_type = "Largest" THEN "Smallest" ELSE "Largest"
Succeeded == pc = "done" /\ res.kind = "ok"
LongerOrEqual(largest, smallest) == Len(largest) >= Len(smallest)
C14_LargestOutputNotShorter ==
    Succeeded =>
        \A h \in PrefetchHints :
            LET other == process_file_bytes(raw_buf, OtherPolicy, h)
            IN  other.kind = "ok" =>
                    IF find_type = "Largest"
                    THEN LongerOrEqual(res.val, other.val)
                    ELSE LongerOrEqual(other.val, res.val)
\* Both policies succeed on one buffer and Largest's output is longer.
C14_Witness ==
    /\ Succeeded
    /\ find_type = "Largest"
    /\ LET other == process_file_bytes(raw_buf, "Smallest", hint)
       IN  other.kind = "ok" /\ Len(res.val) > Len(other.val)

(***************************************************************************)
(* C15: when the walk over a rendered chain reaches the zero link and no   *)
(* IFD of the chain holds both a pointer and a length entry, the scan      *)
(* ends with the error "No JPEG data found" and returns no info; so it     *)
(* does, in particular, when the header's first IFD offset is zero.        *)
(***************************************************************************)
\* The buffer was rendered from synth and the walk starts at its header.
WalksRendered == synth # Literal /\ tiff_offset = Len(synth.pre)
NotFound ==
    /\ pc = "done"
    /\ at = "finish"
    /\ res.kind = "err"
    /\ res.msg = "No JPEG data found"
    /\ jpeg_info = EmbeddedJpegInfo_default
C15_NoCandidateIsNotFound ==
    (ScanOver /\ WalksRendered /\ DeclIdx(synth.chain) = {}) => NotFound
\* A chain of IFDs, none of them with a candidate, walked to its end.
C15_Witness ==
    /\ WellFormed(synth)
    /\ WalksRendered
    /\ synth.chain # <<>>
    /\ DeclIdx(synth.chain) = {}
    /\ NotFound
\* A header whose first IFD offset is zero, scanned to its end.
ZeroFirstOffsetNotFound ==
    /\ WellFormed(synth)
    /\ WalksRendered
    /\ synth.chain = <<>>
    /\ NotFound

(***************************************************************************)
(* C16: the walk has no cycle guard and no iteration cap.  On a buffer     *)
(* whose last IFD links back to the first IFD (an IFD linking to itself    *)
(* when the chain has one IFD) the scanner never leaves the walk; on every *)
(* other buffer the walk ends, at the zero link or at a failed check.      *)
(***************************************************************************)
\* The header is located where the buffer was rendered.
LocatedAsRendered ==
    LET located == find_tiff_header_offset(raw_buf)
    IN  located.kind # "panic" /\ tiff_offset_of(located) = Len(synth.pre)
Cyclic ==
    /\ synth # Literal
    /\ synth.last = "self"
    /\ synth.chain # <<>>
    /\ synth.keep = WholeSize(synth)
    /\ LocatedAsRendered
C16_WalkEndsIffNoCycle ==
    /\ [](Cyclic => ~PastWalk)
    /\ (~Cyclic) ~> PastWalk
\* The walk is back at the IFD it has already read.
C16_Witness ==
    /\ Cyclic
    /\ pc = "walk"
    /\ Len(synth.chain) > 1
    /\ next_ifd_offset = FirstIfdPos
    /\ largest_jpeg # EmbeddedJpegInfo_default
    /\ ENABLED WalkIfd

(***************************************************************************)
(* C17: one iteration of the walk over IFD k of a well-formed chain offers *)
(* the selection at most one candidate, made of that IFD's entries alone:  *)
(* the pointer and the length read up to the entry that completes the      *)
(* pair, and the value of the last orientation entry before that entry     *)
(* (none if there is none).  Entries after the pair are not read, and an   *)
(* IFD without a pair leaves the running best as it is, whatever the IFDs  *)
(* before it held.                                                         *)
(***************************************************************************)
\* The entries of es up to index k that carry `tag`.
TagIdx(es, tag, k) == {j \in 1..k : es[j][1] = tag}
Max(S) == CHOOSE x \in S : \A y \in S : y <= x
Min(S) == CHOOSE x \in S : \A y \in S : x <= y
LastValue(es, tag, k) == es[Max(TagIdx(es, tag, k))][2]
\* The indices at which es has shown both a pointer and a length.
PairIdx(es) ==
    {k \in 1..Len(es) : TagIdx(es, JPEG_TAG, k) # {} /\ TagIdx(es, JPEG_LENGTH_TAG, k) # {}}
\* The candidate of an IFD, read off its description.
IfdCandidate(es) ==
    IF PairIdx(es) = {} THEN None
    ELSE LET k == Min(PairIdx(es))
         IN  Some(EmbeddedJpegInfo(LastValue(es, JPEG_TAG, k),
                                   LastValue(es, JPEG_LENGTH_TAG, k),
                                   IF TagIdx(es, ORIENTATION_TAG, k) = {} THEN None
                                   ELSE Some(LastValue(es, ORIENTATION_TAG, k))))
\* The IFD of the chain that is rendered at TIFF-relative offset off.
IfdIndexAt(chain, off) ==
    CHOOSE k \in 1..Len(chain) : FirstIfdPos + ChainSize(SubSeq(chain, 1, k - 1)) = off
WalkingWellFormed ==
    pc = "walk" /\ next_ifd_offset # 0 /\ WellFormed(synth) /\ WalksRendered
IfdStepAsDescribed ==
    WalkingWellFormed =>
        LET c == IfdCandidate(synth.chain[IfdIndexAt(synth.chain, next_ifd_offset)])
        IN  largest_jpeg' =
                IF c = None THEN largest_jpeg
                ELSE select_jpeg(find_type, largest_jpeg, c[1].offset, c[1].length,
                                 c[1].orientation)
C17_OneCandidatePerIfd == [][IfdStepAsDescribed]_vars
\* The walk has read an IFD holding only a length and then the IFD with
\* orientation entries on both sides of its pair.
C17_Witness ==
    /\ WellFormed(synth)
    /\ WalksRendered
    /\ synth.chain = <<LengthOnlyShape, OrientedPairShape>>
    /\ pc = "walk"
    /\ next_ifd_offset = 0
    /\ largest_jpeg = EmbeddedJpegInfo(9, 4, Some(3))

(***************************************************************************)
(* C18: on a well-formed chain with at least one candidate, under either   *)
(* policy, the first candidate of the chain is the running best once its   *)
(* IFD has been read, and the scan does not end with "No JPEG data found". *)
(***************************************************************************)
\* The link that follows IFD k of a well-formed chain.
AfterIfd(chain, k) ==
    IF k = Len(chain) THEN 0 ELSE FirstIfdPos + ChainSize(SubSeq(chain, 1, k))
HasCandidate == WellFormed(synth) /\ WalksRendered /\ DeclIdx(synth.chain) # {}
FirstCandidateIdx == Min(DeclIdx(synth.chain))
C18_FirstCandidateAccepted ==
    HasCandidate =>
        /\ (pc = "walk" /\ next_ifd_offset = AfterIfd(synth.chain, FirstCandidateIdx)) =>
                largest_jpeg = IfdCandidate(synth.chain[FirstCandidateIdx])[1]
        /\ ~NotFound

(***************************************************************************)
(* C19: once header location has run, the TIFF offset is 0 if the buffer   *)
(* starts with II*\0, else 6 past the first Exif\0\0 in the buffer, else 0 *)
(* (the fallback); and a pipeline that fell back on a buffer without a     *)
(* TIFF magic at offset 0 ends in an error result.                         *)
(***************************************************************************)
StartsWith(buf, magic) == Len(buf) >= Len(magic) /\ SubSeq(buf, 1, Len(magic)) = magic
MarkerPositions ==
    {p \in 0..(Len(raw_buf) - Len(EXIF_HEADER)) :
        SubSeq(raw_buf, p + 1, p + Len(EXIF_HEADER)) = EXIF_HEADER}
ExpectedTiffOffset ==
    IF StartsWith(raw_buf, TIFF_HEADER) THEN 0
    ELSE IF MarkerPositions # {} THEN Min(MarkerPositions) + EXIF_HEADER_SIZE
    ELSE 0
FellBack == ~StartsWith(raw_buf, TIFF_HEADER) /\ MarkerPositions = {}
C19_HeaderLocation ==
    pc # "locate" =>
        /\ tiff_offset = ExpectedTiffOffset
        /\ (FellBack /\ ~StartsWith(raw_buf, TIFF_MAGIC_BE) /\ pc = "done") =>
                res.kind = "err"

(***************************************************************************)
(* C12: once the walk is over, a file of the tree is in entries (once: it  *)
(* gets one task) if and only if its extension is, in any mix of upper and *)
(* lower case, one of the twenty defaults, or is the extra extension; only *)
(* such files get an output, and each whose pipeline succeeds has its      *)
(* output when the batch has collected every outcome.                      *)
(***************************************************************************)
DefaultSet == {DefaultExtensions[i] : i \in 1..Len(DefaultExtensions)}
MatchesAnyCase(f) ==
    /\ f.path[3] # <<>>
    /\ (to_lowercase(f.path[3]) \in DefaultSet \/ extension = Some(f.path[3]))
TaskCount(f) == Cardinality({k \in 1..Len(entries) : entries[k] = f})
WalkOver == batch.pc # "walk"
Collected == batch.pc = "done" /\ batch.result \in {"ok", "failed"}
C12_AcceptsAnyCase ==
    WalkOver =>
        /\ \A f \in TreeFiles : TaskCount(f) = IF MatchesAnyCase(f) THEN 1 ELSE 0
        /\ DOMAIN outputs \subseteq {OutputFile(f.path) : f \in {g \in TreeFiles : MatchesAnyCase(g)}}
        /\ Collected =>
              \A f \in TreeFiles :
                  (MatchesAnyCase(f) /\ PipelineOf(f).kind = "ok") =>
                      OutputFile(f.path) \in DOMAIN outputs

(***************************************************************************)
(* C13: when the walk is over (before any task is spawned) the output      *)
(* directories that exist are the output root and, with its ancestors, the *)
(* mirror of every input directory that directly holds a matching file,    *)
(* and no others, then or later; no task is spawned during the walk, and   *)
(* a spawned task's output file has its parent directory.                  *)
(***************************************************************************)
Ancestors(dir) == {x \in TreeDirs : Len(x) <= Len(dir) /\ SubSeq(dir, 1, Len(x)) = x}
DirectMatch == {dir \in TreeDirs : \E f \in FilesIn(dir) : is_valid(f.path, extension)}
Spawned == {k \in 1..Len(entries) : tasks[k].pc # "unspawned"}
C13_OutputDirsPrecreated ==
    /\ WalkOver => out_dirs = {<<>>} \cup UNION {Ancestors(dir) : dir \in DirectMatch}
    /\ ~WalkOver => Spawned = {}
    /\ \A k \in Spawned : OutputFile(entries[k].path)[1] \in out_dirs
\* A task is at work; e/t was mirrored with its ancestor e, which holds no
\* matching file itself, and d/s was not.
C13_Witness ==
    /\ extension = None
    /\ \E k \in Spawned : tasks[k].pc = "process" /\ entries[k].path[1] = <<"e", "t">>
    /\ {<<"e">>, <<"e", "t">>} \subseteq out_dirs
    /\ <<"d", "s">> \notin out_dirs

(***************************************************************************)
(* C20: with at least one permit, a batch that has ended has reported its  *)
(* result, and every task has acquired a permit, run its pipeline once,    *)
(* released the permit and returned its outcome: nothing runs once main    *)
(* has returned, so no task was cancelled or left waiting.                 *)
(***************************************************************************)
AllFinished == \A k \in 1..Len(entries) : tasks[k].pc = "finished" /\ tasks[k].attempts = 1
BatchReported == batch.pc = "done" /\ batch.result \in {"ok", "failed"}
C20_EveryTaskRunsToItsOutcome ==
    (transfers >= 1 /\ batch.pc = "done") =>
        BatchReported /\ AllFinished /\ permits = transfers

(***************************************************************************)
(* C21: with transfers = 0 and at least one discovered file, no task ever  *)
(* acquires a permit: every task stays unspawned or waiting, no pipeline   *)
(* is attempted, no outcome is recorded, nothing is written, and the batch *)
(* never counts a failure nor ends.                                        *)
(***************************************************************************)
NoPermitsAtAll == transfers = 0 /\ Len(entries) >= 1
C21_ZeroTransfersNeverProgress ==
    NoPermitsAtAll =>
        /\ \A k \in 1..Len(entries) :
              /\ tasks[k].pc \in {"unspawned", "queued"}
              /\ ~tasks[k].permit
              /\ tasks[k].attempts = 0
              /\ tasks[k].result = "none"
        /\ permits = 0
        /\ outputs = <<>>
        /\ batch.pc \in {"walk", "spawn", "collect"}
        /\ batch.pc = "collect" => batch.i = 1
        /\ batch.nr_failed = 0
        /\ batch.result = "none"
\* Every task waits for a permit and main waits for the first task.
C21_Witness ==
    /\ NoPermitsAtAll
    /\ Len(entries) = MaxFiles
    /\ \A k \in 1..Len(entries) : tasks[k].pc = "queued"
    /\ batch.pc = "collect"

====
